---- MODULE Spec2Model ----
(***************************************************************************)
(* Model of the graph engine of the product recommender                    *)
(* (src/graph_repository.py): the Neo4j store of User and Product nodes    *)
(* and FOLLOWS / RATES relationships, and the GraphRepository methods that *)
(* write to it and read from it through Cypher queries, with the network  *)
(* built from a query result (src/visualization_service.py).               *)
(*                                                                         *)
(* Spec     : the write methods, called one at a time from the empty store *)
(* SpecRead : the read methods, on stores of three users                   *)
(* SpecNet  : get_user_network and create_user_network                     *)
(* SpecConc : create_constraints, then add_user from two sessions at once  *)
(*                                                                         *)
(* The store is a record of four bags, so that duplicate nodes and         *)
(* duplicate relationships are expressible:                                *)
(*   users    : bag of names                                               *)
(*   products : bag of [name, category]                                    *)
(*   follows  : bag of <<follower, followee>>                              *)
(*   rates    : bag of [user, product, rating, type]                       *)
(* A name is a sequence of characters, so that str.strip() is computed.    *)
(***************************************************************************)
EXTENDS Naturals, Integers, Sequences, FiniteSets, Bags, TLC

VARIABLES db, pre, call, ret

vars == <<db, pre, call, ret>>

----------------------------------------------------------------------------
(* Bounds and input sets *)

\* largest number of RATES relationships the explored stores hold
MaxRates == 2

\* the null of Python / Cypher
None == "None"

\* names as typed by a caller (add_user / add_product arguments)
RawNames == { <<>>, <<" ">>, <<"a">>, <<" ", "a", " ">>, <<"b">> }

\* names used as lookup keys (delete / follow / rate arguments)
KeyNames == { <<"a">>, <<"b">> }

Categories == { None, "c" }

\* rating arguments: the two ends of the range 1..5 and one value outside it
RatingInputs == { 0, 1, 5 }

RatingTypes == { "recommends", "rates" }

----------------------------------------------------------------------------
(* str.strip() *)

IsSpace(c) == c = " "

RECURSIVE LStrip(_)
LStrip(s) == IF s # <<>> /\ IsSpace(Head(s)) THEN LStrip(Tail(s)) ELSE s

RECURSIVE RStrip(_)
RStrip(s) ==
    IF s # <<>> /\ IsSpace(s[Len(s)]) THEN RStrip(SubSeq(s, 1, Len(s) - 1)) ELSE s

Strip(s) == RStrip(LStrip(s))

----------------------------------------------------------------------------
(* Bag helpers *)

\* n copies of element e
Copies(e, n) == IF n = 0 THEN EmptyBag ELSE [x \in {e} |-> n]

\* the bag B without the elements satisfying Drop
BagFilterOut(B, Drop(_)) ==
    LET keep == { e \in BagToSet(B) : ~Drop(e) }
    IN  [e \in keep |-> B[e]]

\* number of elements of B (with multiplicity) satisfying P
RECURSIVE SumCopies(_, _)
SumCopies(B, S) ==
    IF S = {} THEN 0
    ELSE LET e == CHOOSE x \in S : TRUE
         IN  B[e] + SumCopies(B, S \ {e})

CountWhere(B, P(_)) == SumCopies(B, { e \in BagToSet(B) : P(e) })

EmptyStore ==
    [users |-> EmptyBag, products |-> EmptyBag,
     follows |-> EmptyBag, rates |-> EmptyBag]

UserCount(g, n) == CopiesIn(n, g.users)
ProductCount(g, n) == CountWhere(g.products, LAMBDA p : p.name = n)

----------------------------------------------------------------------------
(* Cypher statements.  Each yields the new store and the number of rows    *)
(* the statement returns.                                                  *)

\* variant of MergeUser: CREATE in place of MERGE
MergeUser_Create(g, name) ==
    [db |-> [g EXCEPT !.users = @ (+) Copies(name, 1)], rows |-> 1]

\* MERGE (u:User {name: $name}) RETURN u
MergeUser(g, name) ==
    IF UserCount(g, name) = 0
    THEN [db |-> [g EXCEPT !.users = @ (+) Copies(name, 1)], rows |-> 1]
    ELSE [db |-> g, rows |-> UserCount(g, name)]

\* variant of DetachDeleteUser: the node goes, its relationships stay
DetachDeleteUser_NodeOnly(g, name) ==
    [db |-> [g EXCEPT !.users = BagFilterOut(@, LAMBDA u : u = name)], rows |-> 0]

\* MATCH (u:User {name: $name}) DETACH DELETE u
DetachDeleteUser(g, name) ==
    [db |-> [g EXCEPT
                !.users = BagFilterOut(@, LAMBDA u : u = name),
                !.follows = BagFilterOut(@, LAMBDA f : f[1] = name \/ f[2] = name),
                !.rates = BagFilterOut(@, LAMBDA r : r.user = name)],
     rows |-> 0]

\* MERGE (p:Product {name: $name}) SET p.category = $category RETURN p
MergeProduct(g, name, category) ==
    LET k == ProductCount(g, name)
        node == [name |-> name, category |-> category]
    IN  IF k = 0
        THEN [db |-> [g EXCEPT !.products = @ (+) Copies(node, 1)], rows |-> 1]
        ELSE [db |-> [g EXCEPT !.products =
                         BagFilterOut(@, LAMBDA p : p.name = name) (+) Copies(node, k)],
              rows |-> k]

\* variant of DetachDeleteProduct: every RATES relationship goes
DetachDeleteProduct_AllRates(g, name) ==
    [db |-> [g EXCEPT
                !.products = BagFilterOut(@, LAMBDA p : p.name = name),
                !.rates = EmptyBag],
     rows |-> 0]

\* MATCH (p:Product {name: $name}) DETACH DELETE p
DetachDeleteProduct(g, name) ==
    [db |-> [g EXCEPT
                !.products = BagFilterOut(@, LAMBDA p : p.name = name),
                !.rates = BagFilterOut(@, LAMBDA r : r.product = name)],
     rows |-> 0]

\* variant of MergeFollows: CREATE in place of MERGE
MergeFollows_Create(g, follower, followee) ==
    LET pairs == UserCount(g, follower) * UserCount(g, followee)
    IN  IF pairs = 0
        THEN [db |-> g, rows |-> 0]
        ELSE [db |-> [g EXCEPT !.follows = @ (+) Copies(<<follower, followee>>, pairs)],
              rows |-> pairs]

\* variant of MergeFollows: the whole pattern is merged, so that missing
\* endpoints are created
MergeFollows_Pattern(g, follower, followee) ==
    LET e == <<follower, followee>>
    IN  IF CopiesIn(e, g.follows) > 0
        THEN [db |-> g, rows |-> CopiesIn(e, g.follows)]
        ELSE [db |-> [g EXCEPT
                        !.users = @ (+) Copies(follower, IF UserCount(g, follower) = 0 THEN 1 ELSE 0)
                                    (+) Copies(followee, IF UserCount(g, followee) = 0 THEN 1 ELSE 0),
                        !.follows = @ (+) Copies(e, 1)],
              rows |-> 1]

\* MATCH (a:User {name: $follower}), (b:User {name: $followee})
\* MERGE (a)-[r:FOLLOWS]->(b) RETURN r
\* One relationship is created for each matched pair of nodes that has none.
MergeFollows(g, follower, followee) ==
    LET pairs == UserCount(g, follower) * UserCount(g, followee)
        e == <<follower, followee>>
        k == CopiesIn(e, g.follows)
    IN  IF pairs = 0
        THEN [db |-> g, rows |-> 0]
        ELSE IF k = 0
        THEN [db |-> [g EXCEPT !.follows = @ (+) Copies(e, pairs)], rows |-> pairs]
        ELSE [db |-> g, rows |-> k]

\* MATCH (u:User {name: $user}), (p:Product {name: $product})
\* MERGE (u)-[r:RATES]->(p) SET r.rating = $rating, r.type = $type
\* The statement has no RETURN clause: it yields no rows.
MergeRates(g, user, product, rating, type) ==
    LET pairs == UserCount(g, user) * ProductCount(g, product)
        Between(r) == r.user = user /\ r.product = product
        k == CountWhere(g.rates, Between)
        e == [user |-> user, product |-> product, rating |-> rating, type |-> type]
    IN  IF pairs = 0
        THEN [db |-> g, rows |-> 0]
        ELSE [db |-> [g EXCEPT !.rates =
                         BagFilterOut(@, Between) (+) Copies(e, IF k = 0 THEN pairs ELSE k)],
              rows |-> 0]

----------------------------------------------------------------------------
(* The GraphRepository methods.  fail is the outcome of _execute_query:    *)
(* TRUE when the driver raises Neo4jError, in which case the statement has *)
(* no effect on the store.                                                 *)

add_user_result(g, name, fail) ==
    IF name = <<>> \/ Strip(name) = <<>>
    THEN [db |-> g, ret |-> "ValueError"]
    ELSE IF fail
    THEN [db |-> g, ret |-> "False"]
    ELSE [db |-> MergeUser(g, Strip(name)).db, ret |-> "True"]

\* variant of delete_user: reports whether a node was there
delete_user_result_Existed(g, user_name, fail) ==
    IF fail
    THEN [db |-> g, ret |-> "False"]
    ELSE [db |-> DetachDeleteUser(g, user_name).db,
          ret |-> IF UserCount(g, user_name) > 0 THEN "True" ELSE "False"]

delete_user_result(g, user_name, fail) ==
    IF fail
    THEN [db |-> g, ret |-> "False"]
    ELSE [db |-> DetachDeleteUser(g, user_name).db, ret |-> "True"]

add_product_result(g, name, category, fail) ==
    IF name = <<>> \/ Strip(name) = <<>>
    THEN [db |-> g, ret |-> "ValueError"]
    ELSE IF fail
    THEN [db |-> g, ret |-> "False"]
    ELSE [db |-> MergeProduct(g, Strip(name), category).db, ret |-> "True"]

delete_product_result(g, product_name, fail) ==
    IF fail
    THEN [db |-> g, ret |-> "False"]
    ELSE [db |-> DetachDeleteProduct(g, product_name).db, ret |-> "True"]

\* variant of create_follow_relationship: no check of follower == followee
create_follow_relationship_result_NoCheck(g, follower, followee, fail) ==
    IF fail
    THEN [db |-> g, ret |-> "False"]
    ELSE LET q == MergeFollows(g, follower, followee)
         IN  [db |-> q.db, ret |-> IF q.rows > 0 THEN "True" ELSE "False"]

create_follow_relationship_result(g, follower, followee, fail) ==
    IF follower = followee
    THEN [db |-> g, ret |-> "ValueError"]
    ELSE IF fail
    THEN [db |-> g, ret |-> "False"]
    ELSE LET q == MergeFollows(g, follower, followee)
         IN  [db |-> q.db, ret |-> IF q.rows > 0 THEN "True" ELSE "False"]

rate_product_result(g, user, product, rating, rating_type, fail) ==
    IF fail
    THEN [db |-> g, ret |-> "False"]
    ELSE LET q == MergeRates(g, user, product, rating, rating_type)
         IN  [db |-> q.db, ret |-> IF q.rows > 0 THEN "True" ELSE "False"]

----------------------------------------------------------------------------
(* The state machine.  The caller (the Streamlit script of src/app.py) is  *)
(* idle between two interactions; one interaction calls one method, and    *)
(* the script is then run again from the top, which discards the outcome   *)
(* of the call.  pre, call and ret record the call in progress: the store  *)
(* before it, the method and its arguments, and what it returned or raised.*)

Idle == [op |-> "idle", args |-> <<>>, fail |-> FALSE]

Init ==
    /\ db = EmptyStore
    /\ pre = EmptyStore
    /\ call = Idle
    /\ ret = None

\* one call of a method: the store before it, the call, its effect and outcome
Step(r, op, args, fail) ==
    /\ call = Idle
    /\ db' = r.db
    /\ ret' = r.ret
    /\ pre' = db
    /\ call' = [op |-> op, args |-> args, fail |-> fail]

add_user ==
    \E name \in RawNames, fail \in BOOLEAN :
        Step(add_user_result(db, name, fail), "add_user", <<name>>, fail)

delete_user ==
    \E name \in KeyNames, fail \in BOOLEAN :
        Step(delete_user_result(db, name, fail), "delete_user", <<name>>, fail)

add_product ==
    \E name \in RawNames, category \in Categories, fail \in BOOLEAN :
        Step(add_product_result(db, name, category, fail),
             "add_product", <<name, category>>, fail)

delete_product ==
    \E name \in KeyNames, fail \in BOOLEAN :
        Step(delete_product_result(db, name, fail), "delete_product", <<name>>, fail)

create_follow_relationship ==
    \E follower \in KeyNames, followee \in KeyNames, fail \in BOOLEAN :
        Step(create_follow_relationship_result(db, follower, followee, fail),
             "create_follow_relationship", <<follower, followee>>, fail)

rate_product ==
    \E user \in KeyNames, product \in KeyNames,
       rating \in RatingInputs, rating_type \in RatingTypes, fail \in BOOLEAN :
        LET r == rate_product_result(db, user, product, rating, rating_type, fail)
        IN  /\ call = Idle
            /\ BagCardinality(r.db.rates) <= MaxRates
            /\ Step(r, "rate_product", <<user, product, rating, rating_type>>, fail)

\* the script runs again: the outcome of the last call is gone
rerun ==
    /\ call # Idle
    /\ call' = Idle
    /\ pre' = db
    /\ ret' = None
    /\ UNCHANGED db

Next ==
    \/ add_user
    \/ delete_user
    \/ add_product
    \/ delete_product
    \/ create_follow_relationship
    \/ rate_product
    \/ rerun

Spec == Init /\ [][Next]_vars

----------------------------------------------------------------------------
(* Properties *)

A == <<"a">>
B == <<"b">>

UserNames(g) == BagToSet(g.users)
ProductNames(g) == { p.name : p \in BagToSet(g.products) }

\* the RATES relationships of g from user u to product p, with multiplicity
RatesBetween(g, u, p) ==
    CountWhere(g.rates, LAMBDA r : r.user = u /\ r.product = p)

\* B2 is B1 without the elements satisfying Gone, and nothing else differs
SameExcept(B2, B1, Gone(_)) ==
    \A e \in BagToSet(B1) \cup BagToSet(B2) :
        CopiesIn(e, B2) = IF Gone(e) THEN 0 ELSE CopiesIn(e, B1)

Executed(op) == call.op = op /\ ~call.fail

\* C1: no two nodes of the same kind share a name, and a successful add_user
\* leaves exactly one User node whose name is the stripped argument.
C1_UniqueNames ==
    /\ \A n \in UserNames(db) : UserCount(db, n) = 1
    /\ \A n \in ProductNames(db) : ProductCount(db, n) = 1
    /\ (call.op = "add_user" /\ ret = "True") =>
          /\ UserCount(db, Strip(call.args[1])) = 1
          /\ \A n \in UserNames(db) : Strip(n) = n

\* add_user(" a ") when the user "a" is already there
C1_Witness ==
    /\ call.op = "add_user" /\ ret = "True"
    /\ call.args[1] = <<" ", "a", " ">>
    /\ UserCount(pre, A) = 1
    /\ UserCount(db, A) = 1

\* C2: delete_user(n) (resp. delete_product(n)), when the store executes it,
\* removes the node n and the relationships incident to n, and leaves every
\* other node and every other relationship as it was.
C2_DeleteFrame ==
    /\ Executed("delete_user") =>
          LET n == call.args[1]
          IN  /\ SameExcept(db.users, pre.users, LAMBDA u : u = n)
              /\ SameExcept(db.follows, pre.follows, LAMBDA f : f[1] = n \/ f[2] = n)
              /\ SameExcept(db.rates, pre.rates, LAMBDA r : r.user = n)
              /\ db.products = pre.products
    /\ Executed("delete_product") =>
          LET n == call.args[1]
          IN  /\ SameExcept(db.products, pre.products, LAMBDA p : p.name = n)
              /\ SameExcept(db.rates, pre.rates, LAMBDA r : r.product = n)
              /\ db.users = pre.users
              /\ db.follows = pre.follows

\* delete_user("a") when a follows b, a rates a product and b rates one too
C2_Witness ==
    /\ Executed("delete_user") /\ call.args[1] = A
    /\ CopiesIn(<<A, B>>, pre.follows) = 1
    /\ \E r \in BagToSet(pre.rates) : r.user = A
    /\ \E r \in BagToSet(pre.rates) : r.user = B
    /\ UserCount(db, A) = 0 /\ UserCount(db, B) = 1
    /\ BagCardinality(db.rates) = 1 /\ db.follows = EmptyBag

\* C3: every FOLLOWS relationship has both its users in the store and every
\* RATES relationship has its user and its product in the store.
C3_NoOrphanEdges ==
    /\ \A f \in BagToSet(db.follows) :
          UserCount(db, f[1]) > 0 /\ UserCount(db, f[2]) > 0
    /\ \A r \in BagToSet(db.rates) :
          UserCount(db, r.user) > 0 /\ ProductCount(db, r.product) > 0

\* a node with incident relationships has just been deleted
C3_Witness ==
    /\ Executed("delete_product")
    /\ \E r \in BagToSet(pre.rates) : r.product = call.args[1]
    /\ db.rates # EmptyBag
    /\ db.follows # EmptyBag

\* C4: rate_product with a rating outside 1..5 raises a validation error and
\* leaves the store as it was, so that every RATES relationship of the store
\* carries a rating in 1..5.
C4_RatingValidated ==
    /\ \A r \in BagToSet(db.rates) : r.rating \in 1..5
    /\ (call.op = "rate_product" /\ call.args[3] \notin 1..5) =>
          (ret = "ValueError" /\ db = pre)

\* C5: rate_product with both endpoints in the store and a rating in 1..5,
\* when the store executes it, returns True and leaves exactly one RATES
\* relationship from the user to the product, carrying the given rating and
\* type.
C5_RateSucceeds ==
    LET u == call.args[1]
        p == call.args[2]
    IN  (/\ Executed("rate_product")
         /\ call.args[3] \in 1..5
         /\ UserCount(pre, u) > 0
         /\ ProductCount(pre, p) > 0) =>
            /\ ret = "True"
            /\ RatesBetween(db, u, p) = 1
            /\ CopiesIn([user |-> u, product |-> p,
                         rating |-> call.args[3], type |-> call.args[4]], db.rates) = 1

\* C6: create_follow_relationship with follower equal to followee raises a
\* validation error and leaves the store as it was, and no FOLLOWS
\* relationship of the store has the same user at both ends.
C6_NoSelfFollow ==
    /\ (call.op = "create_follow_relationship" /\ call.args[1] = call.args[2]) =>
          (ret = "ValueError" /\ db = pre)
    /\ \A f \in BagToSet(db.follows) : f[1] # f[2]

\* an existing user asked to follow itself
C6_Witness ==
    /\ call.op = "create_follow_relationship" /\ ~call.fail
    /\ call.args = <<A, A>>
    /\ UserCount(pre, A) = 1
    /\ ret = "ValueError"

\* C7: create_follow_relationship (between two different names) and
\* rate_product, called with an endpoint that is not in the store, return
\* False and leave the store as it was.
C7_MissingEndpoint ==
    /\ (/\ call.op = "create_follow_relationship"
        /\ call.args[1] # call.args[2]
        /\ (UserCount(pre, call.args[1]) = 0 \/ UserCount(pre, call.args[2]) = 0)) =>
          (ret = "False" /\ db = pre)
    /\ (/\ call.op = "rate_product"
        /\ (UserCount(pre, call.args[1]) = 0 \/ ProductCount(pre, call.args[2]) = 0)) =>
          (ret = "False" /\ db = pre)

\* a follows b is asked for when a is in the store and b is not
C7_Witness ==
    /\ Executed("create_follow_relationship")
    /\ call.args = <<A, B>>
    /\ UserCount(pre, A) = 1 /\ UserCount(pre, B) = 0
    /\ ret = "False"
    /\ UserCount(db, B) = 0 /\ db.follows = EmptyBag

\* C8: the store holds at most one FOLLOWS relationship per ordered pair of
\* users and at most one RATES relationship per user and product.
C8_OneEdgePerPair ==
    /\ \A f \in BagToSet(db.follows) : CopiesIn(f, db.follows) = 1
    /\ \A r \in BagToSet(db.rates) : RatesBetween(db, r.user, r.product) = 1

\* a rating is given again for the same user and product, in a store where
\* a follows b
C8_Witness ==
    /\ Executed("rate_product")
    /\ RatesBetween(pre, call.args[1], call.args[2]) = 1
    /\ RatesBetween(db, call.args[1], call.args[2]) = 1
    /\ db.rates # pre.rates
    /\ CopiesIn(<<A, B>>, db.follows) = 1

IsDelete == call.op \in {"delete_user", "delete_product"}

ExistedBefore ==
    IF call.op = "delete_user"
    THEN UserCount(pre, call.args[1]) > 0
    ELSE ProductCount(pre, call.args[1]) > 0

C10_AddProductIdempotent ==
    (/\ call.op = "add_product"
     /\ ret = "True"
     /\ ProductCount(pre, Strip(call.args[1])) > 0) => db = pre

----------------------------------------------------------------------------
(* Read operations: the stores they are run on.  A read does not change    *)
(* the store, so the reads are explored from a family of stores that the   *)
(* write operations can build (unique names, one relationship per pair).   *)

Cc == <<"c">>
W == <<"w">>
X == <<"x">>
Y == <<"y">>
Z == <<"z">>

MakeStore(users, products, follows, rates) ==
    [users |-> SetToBag(users),
     products |-> SetToBag({ [name |-> p, category |-> None] : p \in products }),
     follows |-> SetToBag(follows),
     rates |-> SetToBag(rates)]

\* the RATES relationships of a table <<user, product>> -> rating, where the
\* entry 0 stands for no relationship
RateEdges(table) ==
    { [user |-> k[1], product |-> k[2], rating |-> table[k], type |-> "rates"] :
        k \in { k \in DOMAIN table : table[k] # 0 } }

RECURSIVE TablesOn(_, _)
TablesOn(keys, options) ==
    IF keys = {} THEN { <<>> }
    ELSE LET k == CHOOSE x \in keys : TRUE
         IN  { (k :> v) @@ t : v \in options[k], t \in TablesOn(keys \ {k}, options) }

\* the tables that give each key one of its options
RateTables(options) == TablesOn(DOMAIN options, options)

\* stores for the friend recommender: a may follow b and c, who rate w and x
FriendFollows == { <<A, B>>, <<A, Cc>>, <<B, Cc>>, <<B, A>> }

FriendRateOptions ==
    [k \in {A, B, Cc} \X {W, X} |->
        IF k[1] = A THEN {0, 2} ELSE IF k[1] = B THEN {0, 3, 5} ELSE {0, 5}]

FriendStores ==
    { MakeStore({A, B, Cc}, {W, X}, fs, RateEdges(t)) :
        fs \in SUBSET FriendFollows, t \in RateTables(FriendRateOptions) }

\* stores for the collaborative recommender: a, b and c rate w, x, y and z
CollabRateOptions ==
    [k \in {A, B, Cc} \X {W, X, Y, Z} |->
        IF k[1] = A THEN (IF k[2] = Z THEN {0} ELSE IF k[2] = W THEN {4} ELSE {0, 4})
        ELSE IF k[1] = B
        THEN (IF k[2] = Z THEN {0, 5} ELSE IF k[2] = W THEN {4, 5} ELSE {0, 4, 5})
        ELSE IF k[2] = W THEN {4}
        ELSE IF k[2] = X THEN {0, 4}
        ELSE IF k[2] = Y THEN {0, 5}
        ELSE {0, 4, 5}]

CollabStores ==
    { MakeStore({A, B, Cc}, {W, X, Y, Z}, {}, RateEdges(t)) :
        t \in RateTables(CollabRateOptions) }

----------------------------------------------------------------------------
(* Ordering of names: Cypher compares strings character by character.      *)

Alphabet == <<" ", "a", "b", "c", "w", "x", "y", "z">>

CharRank(c) == CHOOSE i \in 1..Len(Alphabet) : Alphabet[i] = c

RECURSIVE NameLess(_, _)
NameLess(s, t) ==
    IF t = <<>> THEN FALSE
    ELSE IF s = <<>> THEN TRUE
    ELSE IF Head(s) # Head(t) THEN CharRank(Head(s)) < CharRank(Head(t))
    ELSE NameLess(Tail(s), Tail(t))

\* the sequences that list the rows S in an order ORDER BY allows, where
\* Before(x, y) says that the sort keys put x strictly before y
Orderings(S, Before(_, _)) ==
    { q \in [1..Cardinality(S) -> S] :
        \A i, j \in 1..Cardinality(S) :
            i < j => (q[i] # q[j] /\ ~Before(q[j], q[i])) }

----------------------------------------------------------------------------
(* recommend_by_friends *)

\* variant of FriendRows: products the user has rated are not excluded
FriendRows_NoExclusion(g, name, min_rating) ==
    { <<r.user, r.product>> :
        r \in { r \in BagToSet(g.rates) :
                  /\ CopiesIn(<<name, r.user>>, g.follows) > 0
                  /\ r.rating >= min_rating } }

\* MATCH (u:User {name: $name})-[:FOLLOWS]->(friend)-[r:RATES]->(p:Product)
\* WHERE r.rating >= $min_rating AND NOT (u)-[:RATES]->(p)
\* the matched rows, as pairs <<friend, product>>
FriendRows(g, name, min_rating) ==
    { <<r.user, r.product>> :
        r \in { r \in BagToSet(g.rates) :
                  /\ CopiesIn(<<name, r.user>>, g.follows) > 0
                  /\ r.rating >= min_rating
                  /\ ~\E mine \in BagToSet(g.rates) :
                        mine.user = name /\ mine.product = r.product } }

\* WITH p, collect(DISTINCT friend.name) as recommenders,
\*      count(DISTINCT friend) as friend_count
\* WHERE friend_count >= $min_friends
FriendGroups(rows, min_friends) ==
    LET group(p) == { row[1] : row \in { row \in rows : row[2] = p } }
        all == { [product |-> p,
                  recommendation_count |-> Cardinality(group(p)),
                  recommended_by |-> group(p)] : p \in { row[2] : row \in rows } }
    IN  { e \in all : e.recommendation_count >= min_friends }

\* ORDER BY friend_count DESC, p.name
FriendBefore(x, y) ==
    \/ x.recommendation_count > y.recommendation_count
    \/ /\ x.recommendation_count = y.recommendation_count
       /\ NameLess(x.product, y.product)

\* the values the method can return, with the error it logs
recommend_by_friends_results(g, user_name, min_friends, min_rating, fail) ==
    IF fail
    THEN { [value |-> <<>>, logged |-> TRUE] }
    ELSE { [value |-> q, logged |-> FALSE] :
             q \in Orderings(FriendGroups(FriendRows(g, user_name, min_rating),
                                          min_friends), FriendBefore) }

----------------------------------------------------------------------------
(* recommend_collaborative *)

Abs(n) == IF n < 0 THEN 0 - n ELSE n

\* variant of SimilarUsers: one shared product is enough
SimilarUsers_OneShared(g, name, threshold) ==
    { s \in UserNames(g) \ {name} :
        \E r1 \in BagToSet(g.rates), r2 \in BagToSet(g.rates) :
            /\ r1.user = name /\ r2.user = s /\ r1.product = r2.product
            /\ Abs(r1.rating - r2.rating) <= threshold }

\* MATCH (u:User {name: $name})-[r1:RATES]->(p:Product)<-[r2:RATES]-(similar:User)
\* WHERE abs(r1.rating - r2.rating) <= $threshold
\* WITH similar, u, count(*) as shared_products WHERE shared_products >= 2
\* r1 and r2 are two relationships, so that similar is another user than u.
SimilarUsers(g, name, threshold) ==
    { s \in UserNames(g) \ {name} :
        Cardinality({ pr \in BagToSet(g.rates) \X BagToSet(g.rates) :
                        /\ pr[1].user = name /\ pr[2].user = s
                        /\ pr[1].product = pr[2].product
                        /\ Abs(pr[1].rating - pr[2].rating) <= threshold }) >= 2 }

\* MATCH (similar)-[r3:RATES]->(rec:Product)
\* WHERE NOT (u)-[:RATES]->(rec) AND r3.rating >= $min_rating
\* the matched rows: the RATES relationships r3
CollabRows(g, name, threshold, min_rating) ==
    { r3 \in BagToSet(g.rates) :
        /\ r3.user \in SimilarUsers(g, name, threshold)
        /\ r3.rating >= min_rating
        /\ ~\E mine \in BagToSet(g.rates) :
              mine.user = name /\ mine.product = r3.product }

RECURSIVE SumRatings(_)
SumRatings(rows) ==
    IF rows = {} THEN 0
    ELSE LET r == CHOOSE x \in rows : TRUE
         IN  r.rating + SumRatings(rows \ {r})

\* round(avg_rating * 100) / 100 of the average total / n, in hundredths;
\* round() takes a tie upwards
RoundedAverage(total, n) == (200 * total + n) \div (2 * n)

\* WITH rec, collect(DISTINCT similar.name) as similar_users,
\*      count(DISTINCT similar) as recommendation_weight,
\*      avg(r3.rating) as avg_rating
\* The average is kept as the pair of the total and the number of rows.
CollabGroups(rows) ==
    LET group(p) == { r \in rows : r.product = p }
    IN  { [product |-> p,
           recommendation_weight |-> Cardinality({ r.user : r \in group(p) }),
           total |-> SumRatings(group(p)),
           n |-> Cardinality(group(p)),
           recommended_by_similar |-> { r.user : r \in group(p) }] :
            p \in { r.product : r \in rows } }

\* variant of CollabBefore: ORDER BY recommendation_weight DESC only
CollabBefore_WeightOnly(x, y) ==
    x.recommendation_weight > y.recommendation_weight

\* ORDER BY recommendation_weight DESC, avg_rating DESC
CollabBefore(x, y) ==
    \/ x.recommendation_weight > y.recommendation_weight
    \/ /\ x.recommendation_weight = y.recommendation_weight
       /\ x.total * y.n > y.total * x.n

\* RETURN rec.name as product, recommendation_weight,
\*        round(avg_rating * 100) / 100 as average_rating,
\*        similar_users as recommended_by_similar
CollabReturn(q) ==
    [i \in DOMAIN q |->
        [product |-> q[i].product,
         recommendation_weight |-> q[i].recommendation_weight,
         average_rating |-> RoundedAverage(q[i].total, q[i].n),
         recommended_by_similar |-> q[i].recommended_by_similar]]

\* the values the method can return, with the error it logs: rows that the
\* sort keys do not separate come in any order
recommend_collaborative_results(g, user_name, similarity_threshold, min_rating, fail) ==
    IF fail
    THEN { [value |-> <<>>, logged |-> TRUE] }
    ELSE { [value |-> CollabReturn(q), logged |-> FALSE] :
             q \in Orderings(CollabGroups(CollabRows(g, user_name, similarity_threshold,
                                                     min_rating)), CollabBefore) }

----------------------------------------------------------------------------
(* get_all_users, get_all_products, get_user_stats *)

\* the values of a sequence of rows' first components
Names(q) == [i \in DOMAIN q |-> q[i][1]]

RowBefore(x, y) == NameLess(x[1], y[1])

\* one row per node: <<name, k>> for the k-th node of that name
UserRows(g) ==
    UNION { { <<n, k>> : k \in 1..UserCount(g, n) } : n \in UserNames(g) }

ProductRows(g) ==
    UNION { { <<n, k>> : k \in 1..ProductCount(g, n) } : n \in ProductNames(g) }

\* variant of get_all_users_results: a failure is passed on to the caller
get_all_users_results_Raises(g, fail) ==
    IF fail
    THEN { [value |-> <<"Neo4jError">>, logged |-> TRUE] }
    ELSE { [value |-> Names(q), logged |-> FALSE] : q \in Orderings(UserRows(g), RowBefore) }

\* MATCH (u:User) RETURN u.name as name ORDER BY name
get_all_users_results(g, fail) ==
    IF fail
    THEN { [value |-> <<>>, logged |-> TRUE] }
    ELSE { [value |-> Names(q), logged |-> FALSE] : q \in Orderings(UserRows(g), RowBefore) }

\* MATCH (p:Product) RETURN p.name as name ORDER BY name
get_all_products_results(g, fail) ==
    IF fail
    THEN { [value |-> <<>>, logged |-> TRUE] }
    ELSE { [value |-> Names(q), logged |-> FALSE] : q \in Orderings(ProductRows(g), RowBefore) }

ZeroStats == [following_count |-> 0, follower_count |-> 0, rated_count |-> 0]

\* MATCH (u:User {name: $name}) with three OPTIONAL MATCH, RETURN count(DISTINCT ...):
\* an aggregation without grouping key gives one row, of zeros when nothing
\* matched.  The stores it is run on hold one node per name, so that the
\* distinct neighbours are counted by name.
get_user_stats_results(g, user_name, fail) ==
    IF fail
    THEN { [value |-> ZeroStats, logged |-> TRUE] }
    ELSE IF UserCount(g, user_name) = 0
    THEN { [value |-> ZeroStats, logged |-> FALSE] }
    ELSE { [value |->
              [following_count |->
                  Cardinality({ f \in BagToSet(g.follows) : f[1] = user_name }),
               follower_count |->
                  Cardinality({ f \in BagToSet(g.follows) : f[2] = user_name }),
               rated_count |->
                  Cardinality({ r.product : r \in { r \in BagToSet(g.rates) :
                                                       r.user = user_name } })],
            logged |-> FALSE] }

----------------------------------------------------------------------------
(* The reads as a state machine *)

ReadStores == FriendStores \cup CollabStores \cup {EmptyStore}

InitRead ==
    /\ db \in ReadStores
    /\ pre = db
    /\ call = Idle
    /\ ret = None

\* one call of a read method
Read(results, op, args, fail) ==
    /\ call = Idle
    /\ \E r \in results : ret' = r
    /\ db' = db
    /\ pre' = db
    /\ call' = [op |-> op, args |-> args, fail |-> fail]

recommend_by_friends ==
    \E user_name \in {A, B}, min_friends \in {1, 2}, min_rating \in {3, 4},
       fail \in BOOLEAN :
        Read(recommend_by_friends_results(db, user_name, min_friends, min_rating, fail),
             "recommend_by_friends", <<user_name, min_friends, min_rating>>, fail)

recommend_collaborative ==
    \E user_name \in {A, B}, similarity_threshold \in {0, 1}, min_rating \in {4, 5},
       fail \in BOOLEAN :
        Read(recommend_collaborative_results(db, user_name, similarity_threshold,
                                             min_rating, fail),
             "recommend_collaborative",
             <<user_name, similarity_threshold, min_rating>>, fail)

get_all_users ==
    \E fail \in BOOLEAN :
        Read(get_all_users_results(db, fail), "get_all_users", <<>>, fail)

get_all_products ==
    \E fail \in BOOLEAN :
        Read(get_all_products_results(db, fail), "get_all_products", <<>>, fail)

get_user_stats ==
    \E user_name \in {A, B}, fail \in BOOLEAN :
        Read(get_user_stats_results(db, user_name, fail), "get_user_stats",
             <<user_name>>, fail)

NextRead ==
    \/ get_all_users
    \/ get_all_products
    \/ get_user_stats
    \/ recommend_by_friends
    \/ recommend_collaborative
    \/ rerun

SpecRead == InitRead /\ [][NextRead]_vars

----------------------------------------------------------------------------
(* Properties of the reads *)

HasRated(g, u, p) == \E r \in BagToSet(g.rates) : r.user = u /\ r.product = p

\* the users that u follows directly and that rated p with at least min_rating
QualifyingFriends(g, u, p, min_rating) ==
    { f \in UserNames(g) :
        /\ CopiesIn(<<u, f>>, g.follows) > 0
        /\ \E r \in BagToSet(g.rates) :
              r.user = f /\ r.product = p /\ r.rating >= min_rating }

\* C11: recommend_by_friends(user, min_friends, min_rating), when the store
\* answers, returns exactly one entry for every product that the user has
\* not rated and that at least min_friends directly followed users rated
\* with min_rating or more; the entry carries that number and that set of
\* users; the entries come by descending number, ties by ascending name.
C11_FriendRecommendations ==
    Executed("recommend_by_friends") =>
        LET u == call.args[1]
            mf == call.args[2]
            mr == call.args[3]
            v == ret.value
            expected == { p \in ProductNames(db) :
                            /\ ~HasRated(db, u, p)
                            /\ Cardinality(QualifyingFriends(db, u, p, mr)) >= mf }
        IN  /\ { v[i].product : i \in DOMAIN v } = expected
            /\ Len(v) = Cardinality(expected)
            /\ \A i \in DOMAIN v :
                  /\ v[i].recommended_by = QualifyingFriends(db, u, v[i].product, mr)
                  /\ v[i].recommendation_count = Cardinality(v[i].recommended_by)
            /\ \A i, j \in DOMAIN v :
                  i < j =>
                    \/ v[i].recommendation_count > v[j].recommendation_count
                    \/ /\ v[i].recommendation_count = v[j].recommendation_count
                       /\ NameLess(v[i].product, v[j].product)

\* x, recommended by two friends, comes before w, recommended by one
C11_Witness ==
    /\ Executed("recommend_by_friends")
    /\ call.args = <<A, 1, 4>>
    /\ Len(ret.value) = 2
    /\ ret.value[1].product = X /\ ret.value[1].recommended_by = {B, Cc}
    /\ ret.value[2].product = W /\ ret.value[2].recommendation_count = 1

\* the other users that share with u at least two products rated within
\* threshold of each other
CloseRaters(g, u, threshold) ==
    { o \in UserNames(g) \ {u} :
        \E p1, p2 \in ProductNames(g) :
            /\ p1 # p2
            /\ \A p \in {p1, p2} :
                  \E ru, ro \in BagToSet(g.rates) :
                      /\ ru.user = u /\ ru.product = p
                      /\ ro.user = o /\ ro.product = p
                      /\ ru.rating - ro.rating <= threshold
                      /\ ro.rating - ru.rating <= threshold }

\* those of them that rated rec with min_rating or more
Recommenders(g, u, rec, threshold, min_rating) ==
    { o \in CloseRaters(g, u, threshold) :
        \E r \in BagToSet(g.rates) :
            r.user = o /\ r.product = rec /\ r.rating >= min_rating }

\* C12: recommend_collaborative(user, threshold, min_rating), when the store
\* answers, returns the product rec if and only if the user has not rated
\* rec and some other user who shares with the user at least 2 products
\* rated within threshold has rated rec with min_rating or more; the
\* recommendation_weight is the number of such users.
C12_CollaborativeRecommendations ==
    Executed("recommend_collaborative") =>
        LET u == call.args[1]
            th == call.args[2]
            mr == call.args[3]
            v == ret.value
            expected == { rec \in ProductNames(db) :
                            /\ ~HasRated(db, u, rec)
                            /\ Recommenders(db, u, rec, th, mr) # {} }
        IN  /\ { v[i].product : i \in DOMAIN v } = expected
            /\ Len(v) = Cardinality(expected)
            /\ \A i \in DOMAIN v :
                  /\ v[i].recommended_by_similar =
                        Recommenders(db, u, v[i].product, th, mr)
                  /\ v[i].recommendation_weight =
                        Cardinality(Recommenders(db, u, v[i].product, th, mr))

\* b shares two close-rated products with a and recommends y, while c, who
\* shares only one, rated z highly and z is not returned
C12_Witness ==
    /\ Executed("recommend_collaborative")
    /\ call.args = <<A, 0, 4>>
    /\ CloseRaters(db, A, 0) = {B}
    /\ \E r \in BagToSet(db.rates) : r.user = Cc /\ r.product = Z /\ r.rating = 5
    /\ Len(ret.value) = 1
    /\ ret.value[1].product = Y
    /\ ret.value[1].recommendation_weight = 1

\* C13 as stated: the list of recommend_collaborative is ordered by
\* recommendation_weight descending, then average_rating descending, then
\* product name ascending.
C13_OrderedWithNameTieBreak ==
    Executed("recommend_collaborative") =>
        \A i, j \in DOMAIN ret.value :
            i < j =>
                LET x == ret.value[i]
                    y == ret.value[j]
                IN  \/ x.recommendation_weight > y.recommendation_weight
                    \/ /\ x.recommendation_weight = y.recommendation_weight
                       /\ x.average_rating > y.average_rating
                    \/ /\ x.recommendation_weight = y.recommendation_weight
                       /\ x.average_rating = y.average_rating
                       /\ NameLess(x.product, y.product)

\* C13 as amended: the list is ordered by recommendation_weight descending,
\* then average_rating descending; entries equal in both come in any order.
C13_OrderedByWeightThenAverage ==
    Executed("recommend_collaborative") =>
        \A i, j \in DOMAIN ret.value :
            i < j =>
                LET x == ret.value[i]
                    y == ret.value[j]
                IN  \/ x.recommendation_weight > y.recommendation_weight
                    \/ /\ x.recommendation_weight = y.recommendation_weight
                       /\ x.average_rating >= y.average_rating

\* z and y are equal in weight and in average, and z comes first
C13_Witness ==
    /\ Executed("recommend_collaborative")
    /\ Len(ret.value) = 2
    /\ ret.value[1].product = Z /\ ret.value[2].product = Y
    /\ ret.value[1].recommendation_weight = ret.value[2].recommendation_weight
    /\ ret.value[1].average_rating = ret.value[2].average_rating

ReadOps ==
    {"get_all_users", "get_all_products", "get_user_stats",
     "recommend_by_friends", "recommend_collaborative"}

\* what the call returns when the store answers and holds no data
EmptySuccess(op, args) ==
    LET results ==
            CASE op = "get_all_users" -> get_all_users_results(EmptyStore, FALSE)
              [] op = "get_all_products" -> get_all_products_results(EmptyStore, FALSE)
              [] op = "get_user_stats" ->
                    get_user_stats_results(EmptyStore, args[1], FALSE)
              [] op = "recommend_by_friends" ->
                    recommend_by_friends_results(EmptyStore, args[1], args[2],
                                                 args[3], FALSE)
              [] op = "recommend_collaborative" ->
                    recommend_collaborative_results(EmptyStore, args[1], args[2],
                                                    args[3], FALSE)
    IN  (CHOOSE r \in results : TRUE).value

\* C16 as stated: when the store fails during a read, what the method
\* returns differs from what it returns when the store answers and holds no
\* data.
C16_FailureDistinctFromEmpty ==
    (call.op \in ReadOps /\ call.fail) =>
        ret.value # EmptySuccess(call.op, call.args)

\* C16 as amended: when the store fails during a read, the method returns
\* the very value it returns when the store answers and holds no data (the
\* empty list, the all-zero counts); the failure shows only in the error the
\* method logs, which a call that the store answers never logs.
C16_FailureOnlyLogged ==
    call.op \in ReadOps =>
        /\ ret.logged = call.fail
        /\ call.fail => ret.value = EmptySuccess(call.op, call.args)

\* the store holds users yet a failed get_all_users returns the empty list
C16_Witness ==
    /\ call.op = "get_all_users"
    /\ call.fail
    /\ UserNames(db) = {A, B, Cc}
    /\ ret = [value |-> <<>>, logged |-> TRUE]

----------------------------------------------------------------------------
(* The network of a user: get_user_network and create_user_network.        *)
(* A node is its label and name, which stands for its element_id; a        *)
(* relationship is its two nodes, its type and its properties.  The stores *)
(* these are run on hold each node and each relationship once.             *)

PathLimit == 200

UserNode(n) == [labels |-> "User", name |-> n]
ProductNode(n) == [labels |-> "Product", name |-> n]

Relationships(g) ==
    { [start_node |-> UserNode(f[1]), end_node |-> UserNode(f[2]),
       type |-> "FOLLOWS", rating |-> 0, rating_type |-> ""] :
          f \in BagToSet(g.follows) } \cup
    { [start_node |-> UserNode(r.user), end_node |-> ProductNode(r.product),
       type |-> "RATES", rating |-> r.rating, rating_type |-> r.type] :
          r \in BagToSet(g.rates) }

Last(q) == q[Len(q)]

InSeq(e, q) == \E i \in DOMAIN q : q[i] = e

\* the paths of exactly k relationships from start, each relationship
\* followed in either direction and at most once
RECURSIVE Trails(_, _, _)
Trails(g, start, k) ==
    IF k = 0
    THEN { [nodes |-> <<start>>, relationships |-> <<>>] }
    ELSE LET rels == Relationships(g)
         IN  UNION {
                { [nodes |-> Append(t.nodes, IF rel.start_node = Last(t.nodes)
                                             THEN rel.end_node ELSE rel.start_node),
                   relationships |-> Append(t.relationships, rel)] :
                    rel \in { rel \in rels :
                                /\ Last(t.nodes) \in {rel.start_node, rel.end_node}
                                /\ ~InSeq(rel, t.relationships) } } :
                t \in Trails(g, start, k - 1) }

\* MATCH path = (u:User {name: $name})-[*1..depth]-(node) RETURN path
MatchPaths(g, name, depth) ==
    IF UserCount(g, name) = 0 THEN {}
    ELSE UNION { Trails(g, UserNode(name), k) : k \in 1..depth }

\* the sets of k elements of S
RECURSIVE Drops(_, _)
Drops(S, k) ==
    IF k = 0 THEN { {} }
    ELSE { D \cup {x} : D \in Drops(S, k - 1), x \in S } \ Drops(S, k - 1)

\* variant of Limited: no LIMIT clause
Limited_NoLimit(paths) == { paths }

\* LIMIT 200: the store chooses the paths it leaves out
Limited(paths) ==
    IF Cardinality(paths) <= PathLimit THEN { paths }
    ELSE { paths \ D : D \in Drops(paths, Cardinality(paths) - PathLimit) }

\* The outcomes of get_user_network.  The with block closes the session
\* when the method returns, so that the result it returns is a result of a
\* closed session.
get_user_network_results(g, user_name, depth, fail) ==
    IF ~(1 <= depth /\ depth <= 3)
    THEN { [raised |-> "ValueError", logged |-> FALSE,
            value |-> [session |-> "none", records |-> {}]] }
    ELSE IF fail
    THEN { [raised |-> "", logged |-> TRUE,
            value |-> [session |-> "none", records |-> {}]] }
    ELSE { [raised |-> "", logged |-> FALSE,
            value |-> [session |-> "closed", records |-> P]] :
              P \in Limited(MatchPaths(g, user_name, depth)) }

NODE_COLORS(node_type) ==
    IF node_type = "User" THEN "#00ff41"
    ELSE IF node_type = "Product" THEN "#ff0055" ELSE "#cccccc"

RELATIONSHIP_COLORS(rel_type) ==
    IF rel_type = "FOLLOWS" THEN "#4285f4"
    ELSE IF rel_type = "RATES" THEN "#fbbc04" ELSE "#888888"

\* lines 39-43: the nodes the loop meets, each with the record it is on and
\* its place there
NodeOccurrences(records) ==
    UNION { { <<p, i, p.nodes[i]>> : i \in DOMAIN p.nodes } : p \in records }

\* lines 46-61: the arguments of net.add_node
NodeCall(node) ==
    [id |-> node, label |-> node.name, title |-> <<node.labels, node.name>>,
     color |-> NODE_COLORS(node.labels),
     size |-> IF node.labels = "User" THEN 25 ELSE 20,
     shape |-> "dot"]

EdgeId(rel) == <<rel.start_node, rel.end_node, rel.type>>

\* lines 72-91: the arguments of net.add_edge
EdgeCall(rel, show_ratings) ==
    [source |-> rel.start_node, to |-> rel.end_node,
     title |-> IF show_ratings /\ rel.type = "RATES" /\ rel.rating # 0
               THEN <<rel.type, rel.rating, rel.rating_type>>
               ELSE <<rel.type>>,
     color |-> RELATIONSHIP_COLORS(rel.type),
     width |-> IF rel.type = "FOLLOWS" THEN 2 ELSE 3,
     arrows |-> "to"]

\* variant of AddedNodes: added_nodes is not looked at, every occurrence of
\* a node is added
AddedNodes_NoCheck(records) ==
    LET occ == NodeOccurrences(records)
    IN  [c \in { NodeCall(o[3]) : o \in occ } |->
            Cardinality({ o \in occ : NodeCall(o[3]) = c })]

\* The calls of net.add_node, as a bag.  An occurrence of a node is added
\* unless its element_id is in added_nodes, that is unless an earlier
\* occurrence was added: whatever the order of the records, one call per
\* element_id.
AddedNodes(records) ==
    SetToBag({ NodeCall(n) :
                 n \in UNION { { p.nodes[i] : i \in DOMAIN p.nodes } : p \in records } })

\* The calls of net.add_edge, as a bag: one per edge_id, made for the first
\* relationship met with it.  In the stores this is run on the relationships
\* of one edge_id are one relationship.
AddedEdges(records, show_ratings) ==
    LET rels == UNION { { p.relationships[i] : i \in DOMAIN p.relationships } :
                        p \in records }
        first(id) == CHOOSE rel \in rels : EdgeId(rel) = id
    IN  SetToBag({ EdgeCall(first(EdgeId(rel)), show_ratings) : rel \in rels })

NoNet == [nodes |-> EmptyBag, edges |-> EmptyBag]

\* The outcomes of create_user_network(query_result, show_ratings), called
\* with the keyword selected_user or without it.  The method has no
\* parameter selected_user.  Iterating the result of a closed session
\* raises ResultConsumedError or, with older drivers, yields no record;
\* the method catches the exception, logs it and returns None, as it does
\* without logging when no node was added.
create_user_network_results(query_result, show_ratings, selected_user) ==
    IF selected_user
    THEN { [raised |-> "TypeError", logged |-> FALSE, built |-> FALSE, value |-> NoNet] }
    ELSE IF query_result.session # "open"
    THEN { [raised |-> "", logged |-> l, built |-> FALSE, value |-> NoNet] :
              l \in BOOLEAN }
    ELSE IF AddedNodes(query_result.records) = EmptyBag
    THEN { [raised |-> "", logged |-> FALSE, built |-> FALSE, value |-> NoNet] }
    ELSE { [raised |-> "", logged |-> FALSE, built |-> TRUE,
            value |-> [nodes |-> AddedNodes(query_result.records),
                       edges |-> AddedEdges(query_result.records, show_ratings)]] }

----------------------------------------------------------------------------
(* The network operations as a state machine *)

Digit(k) == <<"0", "1", "2", "3", "4", "5", "6", "7", "8", "9">>[k + 1]

\* the i-th product of the star
StarProduct(i) == <<"p", Digit(i \div 100), Digit((i \div 10) % 10), Digit(i % 10)>>

\* a rates one product more than the LIMIT lets through
StarStore ==
    MakeStore({A}, { StarProduct(i) : i \in 1..PathLimit + 1 }, {},
              { [user |-> A, product |-> StarProduct(i), rating |-> 5, type |-> "rates"] :
                  i \in 1..PathLimit + 1 })

NetFollows == { <<A, B>>, <<B, A>>, <<B, Cc>>, <<Cc, A>> }
NetRates ==
    { [user |-> u, product |-> W, rating |-> 5, type |-> "rates"] : u \in {A, B, Cc} }

NetStores ==
    { MakeStore({A, B, Cc}, {W}, fs, rs) : fs \in SUBSET NetFollows, rs \in SUBSET NetRates }
    \cup {StarStore}

InitNet ==
    /\ db \in NetStores
    /\ pre = db
    /\ call = Idle
    /\ ret = None

get_user_network ==
    \E user_name \in {A}, depth \in 0..4, fail \in BOOLEAN :
        Read(get_user_network_results(db, user_name, depth, fail),
             "get_user_network", <<user_name, depth>>, fail)

\* The result get_user_network has returned is handed to
\* create_user_network: as it is, the way render_analysis does with the
\* keyword selected_user, or on a session that is still open, the way a
\* caller that runs the query in its own session does.
create_user_network ==
    /\ call.op = "get_user_network"
    /\ ret.value.session = "closed"
    /\ \E session \in {"closed", "open"}, show_ratings \in {TRUE},
          selected_user \in BOOLEAN :
          LET query_result == [ret.value EXCEPT !.session = session]
          IN  /\ call' = [op |-> "create_user_network",
                          args |-> <<query_result, show_ratings, selected_user>>,
                          fail |-> FALSE]
              /\ \E r \in create_user_network_results(query_result, show_ratings,
                                                      selected_user) : ret' = r
    /\ pre' = db
    /\ db' = db

NextNet ==
    \/ get_user_network
    \/ create_user_network
    \/ rerun

SpecNet == InitNet /\ [][NextNet]_vars

----------------------------------------------------------------------------
(* Concurrent sessions.  get_repository builds the one repository and runs *)
(* create_constraints; after it the sessions call add_user, each in its    *)
(* own thread.  call and ret hold one entry per thread.  The store keeps   *)
(* the names of its constraints along with the graph.                      *)

Sessions == {"s1", "s2"}
Threads == {"get_repository"} \cup Sessions

\* variant of MergeIsAtomic: MERGE is never atomic
MergeIsAtomic_Never(g) == FALSE

\* MERGE of a User node matches and creates in one step of the store when
\* the constraint user_name makes the name unique; without it MERGE matches
\* and then creates, and another transaction may come in between
MergeIsAtomic(g) == "user_name" \in g.constraints

\* CREATE CONSTRAINT ... IF NOT EXISTS, once for User and once for Product;
\* a statement that raises Neo4jError is logged and leaves no constraint
create_constraints_result(g, fail_user, fail_product) ==
    [g EXCEPT !.constraints =
        @ \cup (IF fail_user THEN {} ELSE {"user_name"})
          \cup (IF fail_product THEN {} ELSE {"product_name"})]

InitConc ==
    /\ db = [users |-> EmptyBag, products |-> EmptyBag, follows |-> EmptyBag,
             rates |-> EmptyBag, constraints |-> {}]
    /\ pre = db
    /\ call = [t \in Threads |-> Idle]
    /\ ret = [t \in Threads |-> None]

create_constraints ==
    /\ call["get_repository"].op = "idle"
    /\ \E fail_user \in BOOLEAN, fail_product \in BOOLEAN :
          /\ db' = create_constraints_result(db, fail_user, fail_product)
          /\ call' = [call EXCEPT !["get_repository"] =
                        [op |-> "create_constraints", args |-> <<>>,
                         fail |-> fail_user, pc |-> "done"]]
    /\ UNCHANGED <<pre, ret>>

\* add_user up to the point where its MERGE has matched: the whole call when
\* the name is refused, the store fails, MERGE is atomic or a node matched
add_user_match ==
    \E s \in Sessions, name \in RawNames, fail \in BOOLEAN :
        /\ call["get_repository"].op = "create_constraints"
        /\ call[s].op = "idle"
        /\ LET whole == add_user_result(db, name, fail)
               split == /\ whole.ret = "True"
                        /\ ~MergeIsAtomic(db)
                        /\ UserCount(db, Strip(name)) = 0
           IN  /\ db' = IF split THEN db ELSE whole.db
               /\ ret' = IF split THEN ret ELSE [ret EXCEPT ![s] = whole.ret]
               /\ call' = [call EXCEPT ![s] =
                            [op |-> "add_user", args |-> <<name>>, fail |-> fail,
                             pc |-> IF split THEN "create" ELSE "done"]]
        /\ UNCHANGED pre

\* the rest of a MERGE that matched nothing: it creates the node
add_user_create ==
    \E s \in Sessions :
        /\ call[s].op = "add_user"
        /\ call[s].pc = "create"
        /\ db' = MergeUser_Create(db, Strip(call[s].args[1])).db
        /\ ret' = [ret EXCEPT ![s] = "True"]
        /\ call' = [call EXCEPT ![s].pc = "done"]
        /\ UNCHANGED pre

NextConc ==
    \/ create_constraints
    \/ add_user_match
    \/ add_user_create

SpecConc == InitConc /\ [][NextConc]_vars

----------------------------------------------------------------------------
(* Properties of the network operations *)

\* create_user_network has run its loop over the records of an open result
Iterated ==
    /\ call.op = "create_user_network"
    /\ ~call.args[3]
    /\ call.args[1].session = "open"

NodesOn(records) == UNION { { p.nodes[i] : i \in DOMAIN p.nodes } : p \in records }

EdgeIdsOn(records) ==
    UNION { { <<p.relationships[i].start_node, p.relationships[i].end_node,
                p.relationships[i].type>> : i \in DOMAIN p.relationships } :
            p \in records }

C17_OriginFlagged ==
    (Iterated /\ ret.built) =>
        LET origin == (CHOOSE p \in call.args[1].records : TRUE).nodes[1]
        IN  \A c, o \in BagToSet(ret.value.nodes) :
                (o.id = origin /\ c.id # origin) =>
                    <<c.color, c.size, c.shape>> # <<o.color, o.size, o.shape>>

\* C18: the result get_user_network hands to its consumer belongs to a
\* session that is still open.
C18_SessionOpenWhenRead ==
    (Executed("get_user_network") /\ call.args[2] \in 1..3) =>
        ret.value.session = "open"

\* session s has finished an add_user of a name that strips to n, and the
\* store executed it
Added(s, n) ==
    /\ call[s].op = "add_user"
    /\ call[s].pc = "done"
    /\ ~call[s].fail
    /\ Strip(call[s].args[1]) = n

====
